---- MODULE Spec2Model ----
(***************************************************************************)
(* Model of carrot-geyser-plugin (src/src/plugin.rs): the CarrotPlugin     *)
(* object driven by the host's callback thread (on_load, on_unload,        *)
(* update_account) and the Pulsar worker threads it spawns, one per        *)
(* start_pulsar_client call, each reading its own std::sync::mpsc channel. *)
(***************************************************************************)
EXTENDS Integers, Sequences, FiniteSets, TLC

(***************************************************************************)
(* Bounds of the model.                                                    *)
(***************************************************************************)
\* on_load calls explored (each creates one channel and one worker thread)
MaxLoads == 2
\* AccountUpdate messages the host may enqueue over a run
MaxUpdates == 2

(***************************************************************************)
(* Byte strings and identifiers.                                           *)
(***************************************************************************)
\* array_ref![account_bytes, 0, 32]: offset and length of the mint field
MintOffset == 0
MintLen == 32
\* array_ref![account_bytes, 32, 32]: offset and length of the owner field
OwnerOffset == 32
OwnerLen == 32
\* size of a Pubkey ([u8; 32])
PubkeyBytes == 32

\* A byte string is held as its runs: <<b, n>> stands for n bytes of value b,
\* no run is empty and neighbouring runs differ in b, so that two byte strings
\* are equal exactly when their runs are.
Fill(b, n) == IF n = 0 THEN <<>> ELSE << <<b, n>> >>

RECURSIVE ByteLen(_)
ByteLen(bytes) ==
  IF bytes = <<>> THEN 0 ELSE bytes[1][2] + ByteLen(Tail(bytes))

\* the first k bytes of bytes (all of it when it is shorter)
RECURSIVE Take(_, _)
Take(bytes, k) ==
  IF k = 0 \/ bytes = <<>> THEN <<>>
  ELSE IF bytes[1][2] <= k THEN <<bytes[1]>> \o Take(Tail(bytes), k - bytes[1][2])
  ELSE << <<bytes[1][1], k>> >>

\* bytes without its first k bytes
RECURSIVE Drop(_, _)
Drop(bytes, k) ==
  IF k = 0 \/ bytes = <<>> THEN bytes
  ELSE IF bytes[1][2] <= k THEN Drop(Tail(bytes), k - bytes[1][2])
  ELSE << <<bytes[1][1], bytes[1][2] - k>> >> \o Tail(bytes)

Concat(a, b) ==
  IF a = <<>> THEN b
  ELSE IF b = <<>> THEN a
  ELSE IF a[Len(a)][1] = b[1][1]
    THEN SubSeq(a, 1, Len(a) - 1) \o << <<b[1][1], a[Len(a)][2] + b[1][2]>> >> \o Tail(b)
  ELSE a \o b

\* Base58 text of the 32-byte identifiers the model uses (Pubkey's Display and
\* FromStr are inverse on them); any other text is not a valid identifier.
Base58 ==
  { <<"11111111111111111111111111111111", Fill(0, PubkeyBytes)>>,
    <<"4vJ9JU1bJJE96FWSJKvHsmmFADCg4gpZQff4P3bkLKi", Fill(1, PubkeyBytes)>>,
    <<"8qbHbw2BbbTHBW1sbeqakYXVKRQM8Ne7pLK7m6CVfeR", Fill(2, PubkeyBytes)>>,
    <<"CktRuQ2mttgRGkXJtyksdKHjUdc2C4TgDzyB98oEzy8", Fill(3, PubkeyBytes)>>,
    <<"GgBaCs3NCBuZN12kCJgAW63ydqohFkHEdfdEXBPzLHq", Fill(4, PubkeyBytes)>>,
    <<"LbUiWL3xVV8hTFYBVdbTNrpDo41NKS6o3LHHuDzjfcY", Fill(5, PubkeyBytes)>> }

\* Option and Result values: None / Some(x), Err / Ok(x)
None == <<>>
Some(x) == <<x>>
Unwrap(o) == o[1]
Err == <<>>
Ok(x) == <<x>>

\* Pubkey::from_str
from_str(s) ==
  IF \E p \in Base58 : p[1] = s
    THEN Ok((CHOOSE p \in Base58 : p[1] = s)[2])
    ELSE Err

\* Pubkey::to_string
to_string(pk) == (CHOOSE p \in Base58 : p[2] = pk)[1]

\* array_ref![bytes, offset, len]: the slice bytes[offset .. offset+len), taken
\* only when it lies inside bytes (the slice index panics otherwise)
InBounds(bytes, offset, len) == offset + len <= ByteLen(bytes)
ArrayRef(bytes, offset, len) == Take(Drop(bytes, offset), len)

(***************************************************************************)
(* Inputs of the host.                                                     *)
(***************************************************************************)
TokenProgramStr == "4vJ9JU1bJJE96FWSJKvHsmmFADCg4gpZQff4P3bkLKi"
MintStr == "8qbHbw2BbbTHBW1sbeqakYXVKRQM8Ne7pLK7m6CVfeR"
BadStr == "not-a-pubkey"

TokenProgramId == Fill(1, PubkeyBytes)
OtherProgramId == Fill(0, PubkeyBytes)
MintId == Fill(2, PubkeyBytes)
OtherMintId == Fill(3, PubkeyBytes)
OwnerY == Fill(4, PubkeyBytes)
AccountKey == Fill(5, PubkeyBytes)

\* what File::open and serde_json::from_reader make of the config path:
\* no file, a file that is no CarrotPluginConfig, or the parsed filter
NoFile == [opens |-> FALSE]
Malformed == [opens |-> TRUE, parses |-> FALSE]
Filter(mint, program) ==
  [opens |-> TRUE, parses |-> TRUE,
   token_account_filter |->
     [mint_address |-> mint, token_program |-> program, topic |-> "topic"]]
ConfigFiles ==
  { NoFile, Malformed,
    Filter(MintStr, TokenProgramStr),
    Filter(BadStr, TokenProgramStr),
    Filter(MintStr, BadStr) }

\* raw account payloads: first the mint field, then the owner field, then a
\* trailing byte. With the configured mint, cut to every length around the
\* two parsing windows; with another mint, cut to the end of either window
TokenAccount(mint, owner) == Concat(mint, Concat(owner, Fill(9, 1)))
PayloadLens == {0, 31, 32, 63, 64, 65}
Payloads ==
  { Take(TokenAccount(MintId, OwnerY), n) : n \in PayloadLens }
  \cup { Take(TokenAccount(OtherMintId, OwnerY), n) : n \in {32, 64} }
Slots == {100}
WriteVersions == {5}

\* the fields update_account takes out of any ReplicaAccountInfoVersions:
\* accounts of the token program with every payload, accounts of another
\* program with an empty payload, a bare mint field and a whole token account
AccountInfos ==
  [pubkey : {AccountKey}, owner : {TokenProgramId},
   data : Payloads, write_version : WriteVersions]
  \cup
  [pubkey : {AccountKey}, owner : {OtherProgramId},
   data : {p \in Payloads : ByteLen(p) \in {0, 32, 65}},
   write_version : WriteVersions]

(***************************************************************************)
(* State.                                                                  *)
(***************************************************************************)
NoCall == [op |-> "none"]

VARIABLES
  sender,                \* CarrotPlugin.sender: None or the channel it sends on
  pulsar_handle,         \* CarrotPlugin.pulsar_handle: None or a worker thread
  token_account_filter,  \* CarrotPlugin.token_account_filter: None or a filter
  spawned,               \* number of channels / worker threads created so far
  queue,                 \* per channel: the messages sent and not yet received
  worker,                \* per worker thread: where it is, and the message in hand
  host,                  \* the callback thread: idle, joining a worker, or panicked
  sent,                  \* history, per channel: every message enqueued on it
  published,             \* history, per worker: every publish it submitted
  lastCall               \* history: the host call made last and its outcome

vars == <<sender, pulsar_handle, token_account_filter, spawned, queue, worker,
          host, sent, published, lastCall>>

Workers == 1..MaxLoads

Shutdown == [type |-> "Shutdown"]
AccountUpdate(pubkey, slot, owner, data, wv) ==
  [type |-> "AccountUpdate", pubkey |-> pubkey, slot |-> slot,
   token_account_owner |-> owner, account_data |-> data, write_version |-> wv]

\* where a worker thread is: not spawned yet; in startup (Runtime::new,
\* builder.build, producer build, check_connection, run one after the other
\* by the thread alone, each ended by unwrap / expect); in the serve loop at
\* recv or awaiting send_non_blocking; or ended, by return or by panic
Terminated == {"exited", "panicked"}
InStartup(w) == worker[w].at = "startup"
Live(w) == w <= spawned /\ worker[w].at \notin Terminated
\* the Receiver lives in the thread's closure: it is dropped when the thread ends
ReceiverAlive(c) == Live(c)
\* SenderAlive written for a Sender that outlives its replacement in the field
SenderAlive_NotDropped(c) == sender # None

\* the one Sender of channel c is the plugin's field; replacing the field drops it
SenderAlive(c) == sender = Some(c)

Init ==
  /\ sender = None
  /\ pulsar_handle = None
  /\ token_account_filter = None
  /\ spawned = 0
  /\ queue = [c \in Workers |-> <<>>]
  /\ worker = [w \in Workers |-> [at |-> "unborn", msg |-> None]]
  /\ host = [at |-> "idle", handle |-> None]
  /\ sent = [c \in Workers |-> <<>>]
  /\ published = [w \in Workers |-> <<>>]
  /\ lastCall = NoCall

\* SendOk written for a channel that takes messages with its receiver gone
SendOk_Always(c) == TRUE

\* sender.send(msg): Ok appends to the channel; Err when the receiver is gone
SendOk(c) == ReceiverAlive(c)
Enqueue(c, msg) ==
  /\ queue' = [queue EXCEPT ![c] = Append(@, msg)]
  /\ sent' = [sent EXCEPT ![c] = Append(@, msg)]

\* UpdateOutcome written with slot and write_version taking each other's place
UpdateOutcome_SwappedVersion(account, slot) ==
  IF token_account_filter = None
    THEN [result |-> "panic", why |-> "should access token account filter"]
  ELSE IF from_str(Unwrap(token_account_filter).token_program) = Err
    THEN [result |-> "panic", why |-> "should parse token program pubkey"]
  ELSE IF account.owner # Unwrap(from_str(Unwrap(token_account_filter).token_program))
    THEN [result |-> "Ok", why |-> "skipping account update, owner is not token program"]
  ELSE IF ByteLen(account.pubkey) # PubkeyBytes
    THEN [result |-> "panic", why |-> "should construct account pubkey"]
  ELSE IF ~InBounds(account.data, MintOffset, MintLen)
    THEN [result |-> "panic", why |-> "slice index out of range"]
  ELSE IF from_str(Unwrap(token_account_filter).mint_address) = Err
    THEN [result |-> "panic", why |-> "should parse mint address pubkey"]
  ELSE IF Unwrap(from_str(Unwrap(token_account_filter).mint_address))
            # ArrayRef(account.data, MintOffset, MintLen)
    THEN [result |-> "Ok", why |-> "Mint pubkey does not match expected mint pubkey"]
  ELSE IF ~InBounds(account.data, OwnerOffset, OwnerLen)
    THEN [result |-> "panic", why |-> "slice index out of range"]
  ELSE [result |-> "Ok", why |-> "Account update",
        msg |-> AccountUpdate(account.pubkey, account.write_version,
                              ArrayRef(account.data, OwnerOffset, OwnerLen),
                              account.data, slot)]

\* UpdateOutcome written with the owner read from the window of the mint
UpdateOutcome_OwnerFromMint(account, slot) ==
  IF token_account_filter = None
    THEN [result |-> "panic", why |-> "should access token account filter"]
  ELSE IF from_str(Unwrap(token_account_filter).token_program) = Err
    THEN [result |-> "panic", why |-> "should parse token program pubkey"]
  ELSE IF account.owner # Unwrap(from_str(Unwrap(token_account_filter).token_program))
    THEN [result |-> "Ok", why |-> "skipping account update, owner is not token program"]
  ELSE IF ByteLen(account.pubkey) # PubkeyBytes
    THEN [result |-> "panic", why |-> "should construct account pubkey"]
  ELSE IF ~InBounds(account.data, MintOffset, MintLen)
    THEN [result |-> "panic", why |-> "slice index out of range"]
  ELSE IF from_str(Unwrap(token_account_filter).mint_address) = Err
    THEN [result |-> "panic", why |-> "should parse mint address pubkey"]
  ELSE IF Unwrap(from_str(Unwrap(token_account_filter).mint_address))
            # ArrayRef(account.data, MintOffset, MintLen)
    THEN [result |-> "Ok", why |-> "Mint pubkey does not match expected mint pubkey"]
  ELSE IF ~InBounds(account.data, OwnerOffset, OwnerLen)
    THEN [result |-> "panic", why |-> "slice index out of range"]
  ELSE [result |-> "Ok", why |-> "Account update",
        msg |-> AccountUpdate(account.pubkey, slot,
                              ArrayRef(account.data, MintOffset, OwnerLen),
                              account.data, account.write_version)]

\* UpdateOutcome written without the comparison of the owner
UpdateOutcome_NoOwnerCheck(account, slot) ==
  IF token_account_filter = None
    THEN [result |-> "panic", why |-> "should access token account filter"]
  ELSE IF from_str(Unwrap(token_account_filter).token_program) = Err
    THEN [result |-> "panic", why |-> "should parse token program pubkey"]
  ELSE IF FALSE
    THEN [result |-> "Ok", why |-> "skipping account update, owner is not token program"]
  ELSE IF ByteLen(account.pubkey) # PubkeyBytes
    THEN [result |-> "panic", why |-> "should construct account pubkey"]
  ELSE IF ~InBounds(account.data, MintOffset, MintLen)
    THEN [result |-> "panic", why |-> "slice index out of range"]
  ELSE IF from_str(Unwrap(token_account_filter).mint_address) = Err
    THEN [result |-> "panic", why |-> "should parse mint address pubkey"]
  ELSE IF Unwrap(from_str(Unwrap(token_account_filter).mint_address))
            # ArrayRef(account.data, MintOffset, MintLen)
    THEN [result |-> "Ok", why |-> "Mint pubkey does not match expected mint pubkey"]
  ELSE IF ~InBounds(account.data, OwnerOffset, OwnerLen)
    THEN [result |-> "panic", why |-> "slice index out of range"]
  ELSE [result |-> "Ok", why |-> "Account update",
        msg |-> AccountUpdate(account.pubkey, slot,
                              ArrayRef(account.data, OwnerOffset, OwnerLen),
                              account.data, account.write_version)]

\* UpdateOutcome written without the comparison of the mint
UpdateOutcome_NoMintCheck(account, slot) ==
  IF token_account_filter = None
    THEN [result |-> "panic", why |-> "should access token account filter"]
  ELSE IF from_str(Unwrap(token_account_filter).token_program) = Err
    THEN [result |-> "panic", why |-> "should parse token program pubkey"]
  ELSE IF account.owner # Unwrap(from_str(Unwrap(token_account_filter).token_program))
    THEN [result |-> "Ok", why |-> "skipping account update, owner is not token program"]
  ELSE IF ByteLen(account.pubkey) # PubkeyBytes
    THEN [result |-> "panic", why |-> "should construct account pubkey"]
  ELSE IF ~InBounds(account.data, MintOffset, MintLen)
    THEN [result |-> "panic", why |-> "slice index out of range"]
  ELSE IF from_str(Unwrap(token_account_filter).mint_address) = Err
    THEN [result |-> "panic", why |-> "should parse mint address pubkey"]
  ELSE IF FALSE
    THEN [result |-> "Ok", why |-> "Mint pubkey does not match expected mint pubkey"]
  ELSE IF ~InBounds(account.data, OwnerOffset, OwnerLen)
    THEN [result |-> "panic", why |-> "slice index out of range"]
  ELSE [result |-> "Ok", why |-> "Account update",
        msg |-> AccountUpdate(account.pubkey, slot,
                              ArrayRef(account.data, OwnerOffset, OwnerLen),
                              account.data, account.write_version)]

\* update_account up to the send: the panic it dies of, the skip it returns
\* with, or the AccountUpdate it goes on to send
UpdateOutcome(account, slot) ==
  IF token_account_filter = None
    THEN [result |-> "panic", why |-> "should access token account filter"]
  ELSE IF from_str(Unwrap(token_account_filter).token_program) = Err
    THEN [result |-> "panic", why |-> "should parse token program pubkey"]
  ELSE IF account.owner # Unwrap(from_str(Unwrap(token_account_filter).token_program))
    THEN [result |-> "Ok", why |-> "skipping account update, owner is not token program"]
  ELSE IF ByteLen(account.pubkey) # PubkeyBytes
    THEN [result |-> "panic", why |-> "should construct account pubkey"]
  ELSE IF ~InBounds(account.data, MintOffset, MintLen)
    THEN [result |-> "panic", why |-> "slice index out of range"]
  ELSE IF from_str(Unwrap(token_account_filter).mint_address) = Err
    THEN [result |-> "panic", why |-> "should parse mint address pubkey"]
  ELSE IF Unwrap(from_str(Unwrap(token_account_filter).mint_address))
            # ArrayRef(account.data, MintOffset, MintLen)
    THEN [result |-> "Ok", why |-> "Mint pubkey does not match expected mint pubkey"]
  ELSE IF ~InBounds(account.data, OwnerOffset, OwnerLen)
    THEN [result |-> "panic", why |-> "slice index out of range"]
  ELSE [result |-> "Ok", why |-> "Account update",
        msg |-> AccountUpdate(account.pubkey, slot,
                              ArrayRef(account.data, OwnerOffset, OwnerLen),
                              account.data, account.write_version)]

Accepted(out) == "msg" \in DOMAIN out

\* HostAfterUpdate written with the send's result unwrapped instead of printed
HostAfterUpdate_Unwrap(result, send) ==
  IF result = "panic" \/ send = "Err" THEN [host EXCEPT !.at = "panicked"] ELSE host

\* the callback thread after update_account: a panic ends it; `if let Err(e)`
\* prints a failed send and the call still returns Ok(())
HostAfterUpdate(result, send) ==
  IF result = "panic" THEN [host EXCEPT !.at = "panicked"] ELSE host

AccountUpdatesSent ==
  LET Count[c \in 0..MaxLoads] ==
        IF c = 0 THEN 0
        ELSE Count[c - 1]
             + Cardinality({i \in DOMAIN sent[c] : sent[c][i].type = "AccountUpdate"})
  IN Count[MaxLoads]

\* GeyserPlugin::update_account
update_account(account, slot) ==
  LET out == UpdateOutcome(account, slot)
      send == IF ~Accepted(out) \/ sender = None THEN "none"
              ELSE IF SendOk(Unwrap(sender)) THEN "Ok" ELSE "Err"
  IN /\ host.at = "idle"
     /\ AccountUpdatesSent < MaxUpdates
     /\ IF send = "Ok" THEN Enqueue(Unwrap(sender), out.msg)
                       ELSE UNCHANGED <<queue, sent>>
     /\ host' = HostAfterUpdate(out.result, send)
     /\ lastCall' = [op |-> "update_account", why |-> out.why, send |-> send,
                     result |-> IF host'.at = "panicked" THEN "panic" ELSE "Ok"]
     /\ UNCHANGED <<sender, pulsar_handle, token_account_filter, spawned,
                    worker, published>>

\* CarrotPlugin::start_pulsar_client: a new channel whose Sender replaces the
\* field (dropping the previous Sender), a new thread owning the Receiver,
\* whose JoinHandle replaces the field (detaching the previous thread)
start_pulsar_client ==
  /\ spawned' = spawned + 1
  /\ sender' = Some(spawned + 1)
  /\ worker' = [worker EXCEPT ![spawned + 1] = [at |-> "startup", msg |-> None]]
  /\ pulsar_handle' = Some(spawned + 1)

\* GeyserPlugin::on_load
on_load(file) ==
  /\ host.at = "idle"
  /\ spawned < MaxLoads
  /\ IF ~file.opens \/ ~file.parses
       THEN /\ host' = [host EXCEPT !.at = "panicked"]
            /\ lastCall' = [op |-> "on_load", result |-> "panic"]
            /\ UNCHANGED <<sender, pulsar_handle, token_account_filter, spawned, worker>>
       ELSE /\ token_account_filter' = Some(file.token_account_filter)
            /\ start_pulsar_client
            /\ lastCall' = [op |-> "on_load", result |-> "Ok"]
            /\ UNCHANGED host
  /\ UNCHANGED <<queue, sent, published>>

\* on_unload written to return without joining the thread whose handle it took
on_unload_NoJoin ==
  /\ host.at = "idle"
  /\ IF sender # None /\ SendOk(Unwrap(sender))
       THEN Enqueue(Unwrap(sender), Shutdown)
       ELSE UNCHANGED <<queue, sent>>
  /\ pulsar_handle' = None
  /\ host' = host
  /\ lastCall' = [op |-> "on_unload",
                  send |-> IF sender = None THEN "none"
                           ELSE IF SendOk(Unwrap(sender)) THEN "Ok" ELSE "Err",
                  joined |-> pulsar_handle # None,
                  result |-> "returned"]
  /\ UNCHANGED <<sender, token_account_filter, spawned, worker, published>>

\* GeyserPlugin::on_unload up to the join: send Shutdown if there is a sender
\* (the result is ignored), take the handle; with no handle it returns
on_unload ==
  /\ host.at = "idle"
  /\ IF sender # None /\ SendOk(Unwrap(sender))
       THEN Enqueue(Unwrap(sender), Shutdown)
       ELSE UNCHANGED <<queue, sent>>
  /\ pulsar_handle' = None
  /\ host' = IF pulsar_handle = None THEN host
             ELSE [at |-> "joining", handle |-> pulsar_handle]
  /\ lastCall' = [op |-> "on_unload",
                  send |-> IF sender = None THEN "none"
                           ELSE IF SendOk(Unwrap(sender)) THEN "Ok" ELSE "Err",
                  joined |-> pulsar_handle # None,
                  result |-> IF pulsar_handle = None THEN "returned" ELSE "joining"]
  /\ UNCHANGED <<sender, token_account_filter, spawned, worker, published>>

\* on_unload_join written with the join's result unwrapped instead of ignored
on_unload_join_Unwrap ==
  /\ host.at = "joining"
  /\ worker[Unwrap(host.handle)].at \in Terminated
  /\ host' = IF worker[Unwrap(host.handle)].at = "panicked"
               THEN [at |-> "panicked", handle |-> None]
               ELSE [at |-> "idle", handle |-> None]
  /\ lastCall' = [lastCall EXCEPT !.result = "returned"]
  /\ UNCHANGED <<sender, pulsar_handle, token_account_filter, spawned, queue,
                 worker, sent, published>>

\* handle.join() returns (its result ignored) once the thread has ended
on_unload_join ==
  /\ host.at = "joining"
  /\ worker[Unwrap(host.handle)].at \in Terminated
  /\ host' = [at |-> "idle", handle |-> None]
  /\ lastCall' = [lastCall EXCEPT !.result = "returned"]
  /\ UNCHANGED <<sender, pulsar_handle, token_account_filter, spawned, queue,
                 worker, sent, published>>

(***************************************************************************)
(* The worker thread (the closure of thread::spawn).                       *)
(***************************************************************************)
\* serde_json values
JsonString(s) == [json |-> "string", value |-> s]
JsonNumber(n) == [json |-> "number", value |-> n]
JsonArray(bytes) == [json |-> "array", value |-> bytes]

\* the json! payload of an AccountUpdate: pubkey through to_string, the other
\* fields through their Serialize (a Pubkey is a newtype of [u8; 32])
Payload(msg) ==
  [pubkey |-> JsonString(to_string(msg.pubkey)),
   slot |-> JsonNumber(msg.slot),
   token_account_owner |-> JsonArray(msg.token_account_owner),
   account_data |-> JsonArray(msg.account_data),
   write_version |-> JsonNumber(msg.write_version)]

\* StartupOk written for a worker that enters its loop on an emptied channel
StartupOk_DropsBacklog(w) ==
  /\ w <= spawned
  /\ InStartup(w)
  /\ worker' = [worker EXCEPT ![w].at = "recv"]
  /\ queue' = [queue EXCEPT ![w] = <<>>]
  /\ UNCHANGED <<sender, pulsar_handle, token_account_filter, spawned,
                 host, sent, published, lastCall>>

\* every startup call returns Ok: the worker enters the serve loop
StartupOk(w) ==
  /\ w <= spawned
  /\ InStartup(w)
  /\ worker' = [worker EXCEPT ![w].at = "recv"]
  /\ UNCHANGED <<sender, pulsar_handle, token_account_filter, spawned, queue,
                 host, sent, published, lastCall>>

\* a startup call returns Err: unwrap / expect panics, the thread unwinds and
\* drops the Receiver with whatever is buffered in the channel
StartupErr(w) ==
  /\ w <= spawned
  /\ InStartup(w)
  /\ worker' = [worker EXCEPT ![w].at = "panicked"]
  /\ queue' = [queue EXCEPT ![w] = <<>>]
  /\ UNCHANGED <<sender, pulsar_handle, token_account_filter, spawned,
                 host, sent, published, lastCall>>

\* NextMessage written to hand out the newest message instead of the oldest
NextMessage_Newest(q) == q[Len(q)]

\* head of the queue, the message recv() returns
NextMessage(q) == Head(q)
RestOfQueue(q) == Tail(q)

\* while let Ok(msg) = receiver.recv(): an AccountUpdate is turned into its
\* payload, Shutdown breaks the loop, Err (no message and no Sender) ends it;
\* with no message and a live Sender the thread blocks
Recv(w) ==
  /\ w <= spawned
  /\ worker[w].at = "recv"
  /\ IF queue[w] # <<>>
       THEN /\ queue' = [queue EXCEPT ![w] = RestOfQueue(@)]
            /\ worker' = [worker EXCEPT ![w] =
                            IF NextMessage(queue[w]).type = "Shutdown"
                              THEN [at |-> "exited", msg |-> None]
                              ELSE [at |-> "send",
                                    msg |-> Some(Payload(NextMessage(queue[w])))]]
       ELSE /\ ~SenderAlive(w)
            /\ worker' = [worker EXCEPT ![w].at = "exited"]
            /\ UNCHANGED queue
  /\ UNCHANGED <<sender, pulsar_handle, token_account_filter, spawned,
                 host, sent, published, lastCall>>

\* AfterSend written with a failed publish ending the thread
AfterSend_Fatal(w, result) ==
  IF result = "Err" THEN [at |-> "panicked", msg |-> None]
                    ELSE [at |-> "recv", msg |-> None]

\* AfterSend written with a failed publish submitted again
AfterSend_Retry(w, result) ==
  IF result = "Err" THEN [at |-> "send", msg |-> worker[w].msg]
                    ELSE [at |-> "recv", msg |-> None]

\* what the loop does once send_non_blocking has returned: a failure is
\* printed and the loop goes on to the next recv
AfterSend(w, result) == [at |-> "recv", msg |-> None]

\* producer.send_non_blocking(payload).await returns result (Ok or Err)
Send(w, result) ==
  /\ w <= spawned
  /\ worker[w].at = "send"
  /\ published' = [published EXCEPT ![w] =
                     Append(@, [payload |-> Unwrap(worker[w].msg), result |-> result])]
  /\ worker' = [worker EXCEPT ![w] = AfterSend(w, result)]
  /\ UNCHANGED <<sender, pulsar_handle, token_account_filter, spawned, queue,
                 host, sent, lastCall>>

WorkerStep(w) ==
  \/ StartupOk(w)
  \/ StartupErr(w)
  \/ Recv(w)
  \/ \E result \in {"Ok", "Err"} : Send(w, result)

Next ==
  \/ \E file \in ConfigFiles : on_load(file)
  \/ on_unload
  \/ on_unload_join
  \/ \E account \in AccountInfos, slot \in Slots : update_account(account, slot)
  \/ \E w \in Workers : WorkerStep(w)

Spec == Init /\ [][Next]_vars

\* Scheduling: a thread that can take a step eventually takes it, every
\* awaited call of a worker returns, and a join returns once the thread ended.
\* The host is free to make no further call.
FairSpec ==
  /\ Spec
  /\ \A w \in Workers :
       /\ WF_vars(StartupOk(w) \/ StartupErr(w))
       /\ WF_vars(Recv(w))
       /\ WF_vars(\E result \in {"Ok", "Err"} : Send(w, result))
  /\ WF_vars(on_unload_join)

(***************************************************************************)
(* Vocabulary of the properties.                                           *)
(***************************************************************************)
\* on_load has returned Ok and no on_unload has taken the worker's handle since
Loaded == pulsar_handle # None
\* the filter is there and both of its identifier strings parse
FilterUsable ==
  /\ token_account_filter # None
  /\ from_str(Unwrap(token_account_filter).token_program) # Err
  /\ from_str(Unwrap(token_account_filter).mint_address) # Err
ConfiguredProgram == Unwrap(from_str(Unwrap(token_account_filter).token_program))
ConfiguredMint == Unwrap(from_str(Unwrap(token_account_filter).mint_address))
\* payload bytes [0,32), when the payload has them
HasMintField(account) == ByteLen(account.data) >= MintOffset + MintLen
MintField(account) == Take(Drop(account.data, MintOffset), MintLen)
HasOwnerField(account) == ByteLen(account.data) >= OwnerOffset + OwnerLen
\* the call returned Ok(()) to the host
ReturnedOk == host'.at = "idle" /\ lastCall'.result = "Ok"
NothingEnqueued == UNCHANGED <<queue, sent>>
\* what every step of update_account does, whatever its arguments: the steps
\* the properties of update_account have to look at
UpdateAccountStep ==
  lastCall'.op = "update_account" /\ UNCHANGED <<worker, published, spawned>>

(***************************************************************************)
(* C1: every update_account call on a loaded plugin whose owner is the     *)
(* configured token_program and whose payload is shorter than 64 bytes     *)
(* returns normally and enqueues nothing.                                  *)
(***************************************************************************)
C1_ShortPayloadIsSkipped ==
  [][UpdateAccountStep =>
     \A account \in AccountInfos, slot \in Slots :
       ( /\ Loaded /\ FilterUsable
         /\ account.owner = ConfiguredProgram
         /\ ~HasOwnerField(account)
         /\ update_account(account, slot) )
       => (ReturnedOk /\ NothingEnqueued)]_vars

(***************************************************************************)
(* C2: on_load returns success only once the worker it started has passed  *)
(* its startup (connect, producer, connectivity check); it never returns   *)
(* success for a worker that is still in startup or has failed.            *)
(***************************************************************************)
C2_LoadWaitsForStartup ==
  [][\A file \in ConfigFiles :
       (on_load(file) /\ lastCall'.result = "Ok")
       => worker'[Unwrap(pulsar_handle')].at \in {"recv", "send"}]_vars

\* the AccountUpdate messages of a sequence of channel messages, in order
Updates(msgs) == SelectSeq(msgs, LAMBDA m : m.type = "AccountUpdate")
PayloadsOf(msgs) == [i \in DOMAIN msgs |-> Payload(msgs[i])]
\* the payloads worker w has submitted to send_non_blocking, in order: those
\* whose send has returned and the one whose send it is awaiting
Attempted(w) ==
  [i \in DOMAIN published[w] |-> published[w][i].payload]
    \o (IF worker[w].at = "send" THEN <<Unwrap(worker[w].msg)>> ELSE <<>>)
ShutdownSent(c) == \E i \in DOMAIN sent[c] : sent[c][i].type = "Shutdown"
\* the messages enqueued on channel c before its first Shutdown
BeforeShutdown(c) ==
  SubSeq(sent[c], 1, (CHOOSE i \in DOMAIN sent[c] :
                        /\ sent[c][i].type = "Shutdown"
                        /\ \A j \in 1..(i - 1) : sent[c][j].type # "Shutdown") - 1)
\* the messages worker w has taken out of its channel so far
Received(w) == SubSeq(sent[w], 1, Len(sent[w]) - Len(queue[w]))

(***************************************************************************)
(* C3: once a Shutdown has been enqueued on a worker's channel, the worker *)
(* has terminated only if it attempted a publish for every AccountUpdate   *)
(* enqueued on that channel before the Shutdown.                           *)
(***************************************************************************)
C3_DrainBeforeExit ==
  \A w \in Workers :
    (ShutdownSent(w) /\ worker[w].at \in Terminated)
    => Attempted(w) = PayloadsOf(Updates(BeforeShutdown(w)))

(***************************************************************************)
(* C4 as stated: every update_account call on a loaded plugin whose owner  *)
(* is the configured token_program and whose payload bytes [0,32) are the  *)
(* configured mint enqueues exactly one AccountUpdate, carrying the call's *)
(* slot and write_version.                                                 *)
(***************************************************************************)
EnqueuesOne(account, slot) ==
  /\ sender # None
  /\ Len(sent'[Unwrap(sender)]) = Len(sent[Unwrap(sender)]) + 1
  /\ \E m \in {sent'[Unwrap(sender)][Len(sent'[Unwrap(sender)])]} :
       /\ m.type = "AccountUpdate"
       /\ m.slot = slot
       /\ m.write_version = account.write_version
       /\ sent' = [sent EXCEPT ![Unwrap(sender)] = Append(@, m)]
       /\ queue' = [queue EXCEPT ![Unwrap(sender)] = Append(@, m)]

C4_MatchEnqueuesOne_AsStated ==
  [][UpdateAccountStep =>
     \A account \in AccountInfos, slot \in Slots :
       ( /\ Loaded /\ FilterUsable
         /\ account.owner = ConfiguredProgram
         /\ HasMintField(account) /\ MintField(account) = ConfiguredMint
         /\ update_account(account, slot) )
       => EnqueuesOne(account, slot)]_vars

(***************************************************************************)
(* C4 amended: every update_account call on a loaded plugin whose worker   *)
(* thread has not terminated, whose owner is the configured token_program, *)
(* whose payload is at least 64 bytes long and whose payload bytes [0,32)  *)
(* are the configured mint enqueues exactly one AccountUpdate, carrying    *)
(* the call's slot and write_version.                                      *)
(***************************************************************************)
C4_MatchEnqueuesOne ==
  [][UpdateAccountStep =>
     \A account \in AccountInfos, slot \in Slots :
       ( /\ Loaded /\ FilterUsable
         /\ ReceiverAlive(Unwrap(sender))
         /\ account.owner = ConfiguredProgram
         /\ HasOwnerField(account)
         /\ MintField(account) = ConfiguredMint
         /\ update_account(account, slot) )
       => EnqueuesOne(account, slot)]_vars

\* a call has just enqueued its AccountUpdate on the channel of a loaded plugin
C4_Witness ==
  /\ Loaded
  /\ lastCall.op = "update_account" /\ lastCall.send = "Ok"
  /\ sent[Unwrap(sender)] # <<>>
  /\ sent[Unwrap(sender)][Len(sent[Unwrap(sender)])].type = "AccountUpdate"

(***************************************************************************)
(* C5: an update_account call whose owner differs from the configured      *)
(* token_program enqueues no message, whatever its payload.                *)
(***************************************************************************)
C5_OtherOwnerEnqueuesNothing ==
  [][UpdateAccountStep =>
     \A account \in AccountInfos, slot \in Slots :
       ( /\ token_account_filter # None
         /\ from_str(Unwrap(token_account_filter).token_program) # Err
         /\ account.owner # ConfiguredProgram
         /\ update_account(account, slot) )
       => NothingEnqueued]_vars

\* a call was skipped for its owner while a live worker was there to send to
C5_Witness ==
  /\ lastCall.op = "update_account"
  /\ lastCall.why = "skipping account update, owner is not token program"
  /\ sender # None /\ ReceiverAlive(Unwrap(sender))

(***************************************************************************)
(* C6: an update_account call whose owner is the configured token_program  *)
(* and whose mint field, payload bytes [0,32), differs from the configured *)
(* mint_address enqueues no message.                                       *)
(***************************************************************************)
C6_OtherMintEnqueuesNothing ==
  [][UpdateAccountStep =>
     \A account \in AccountInfos, slot \in Slots :
       ( /\ FilterUsable
         /\ account.owner = ConfiguredProgram
         /\ HasMintField(account) /\ MintField(account) # ConfiguredMint
         /\ update_account(account, slot) )
       => NothingEnqueued]_vars

\* a call was skipped for its mint while a live worker was there to send to
C6_Witness ==
  /\ lastCall.op = "update_account"
  /\ lastCall.why = "Mint pubkey does not match expected mint pubkey"
  /\ sender # None /\ ReceiverAlive(Unwrap(sender))

(***************************************************************************)
(* C7: each channel is FIFO: what its worker has not yet received is the   *)
(* tail of what was enqueued, in the order of the enqueues, and the        *)
(* publishes the worker has submitted are those of the AccountUpdates it   *)
(* has received, in the same order (a prefix of the enqueues).             *)
(***************************************************************************)
C7_ChannelIsFifo ==
  \A w \in Workers :
    /\ worker[w].at # "panicked" =>
         /\ Len(queue[w]) <= Len(sent[w])
         /\ queue[w] = SubSeq(sent[w], Len(sent[w]) - Len(queue[w]) + 1, Len(sent[w]))
         /\ Attempted(w) = PayloadsOf(Updates(Received(w)))
    /\ \E n \in 0..Len(Updates(sent[w])) :
         Attempted(w) = PayloadsOf(SubSeq(Updates(sent[w]), 1, n))

\* a worker has submitted two different updates while more was enqueued
C7_Witness ==
  \E w \in Workers :
    /\ Len(Attempted(w)) >= 2
    /\ Attempted(w)[1] # Attempted(w)[2]
    /\ Len(sent[w]) > Len(Attempted(w))

(***************************************************************************)
(* C8: once a Shutdown has been enqueued on a worker's channel, the worker *)
(* eventually takes that Shutdown out of the channel and terminates.       *)
(***************************************************************************)
ShutdownObserved(w) ==
  /\ ShutdownSent(w)
  /\ worker[w].at = "exited"
  /\ queue[w] = <<>>

C8_ShutdownIsObserved ==
  \A w \in Workers : ShutdownSent(w) ~> ShutdownObserved(w)

(***************************************************************************)
(* C9: at any time at most one channel exists and at most one worker       *)
(* thread is alive.                                                        *)
(***************************************************************************)
ChannelExists(c) == c <= spawned /\ (SenderAlive(c) \/ ReceiverAlive(c))

C9_OneChannelOneWorker ==
  /\ Cardinality({c \in Workers : ChannelExists(c)}) <= 1
  /\ Cardinality({w \in Workers : Live(w)}) <= 1

(***************************************************************************)
(* C10: when the receiver of the plugin's channel is gone, an              *)
(* update_account call that passes the filter (owner and mint match, the   *)
(* payload holds both fields) has its send fail, enqueues nothing, changes *)
(* nothing of the plugin and still returns Ok.                             *)
(***************************************************************************)
C10_FailedSendIsSwallowed ==
  [][UpdateAccountStep =>
     \A account \in AccountInfos, slot \in Slots :
       ( /\ FilterUsable
         /\ sender # None /\ ~ReceiverAlive(Unwrap(sender))
         /\ account.owner = ConfiguredProgram
         /\ HasOwnerField(account)
         /\ MintField(account) = ConfiguredMint
         /\ update_account(account, slot) )
       => /\ ReturnedOk
          /\ lastCall'.send = "Err"
          /\ NothingEnqueued
          /\ UNCHANGED <<sender, pulsar_handle, token_account_filter>>]_vars

\* a call found the receiver gone and returned Ok all the same
C10_Witness ==
  /\ lastCall.op = "update_account"
  /\ lastCall.send = "Err"
  /\ lastCall.result = "Ok"
  /\ host.at = "idle"

(***************************************************************************)
(* C11: a failed publish leaves the worker in its serve loop at the next   *)
(* recv, with the failed message gone from the channel and not submitted   *)
(* again; every message the worker takes out of its channel is submitted   *)
(* once, and every AccountUpdate enqueued on the channel of a worker that  *)
(* has had a publish fail is eventually submitted.                         *)
(***************************************************************************)
\* what was enqueued, submitted and published only grows: a count of it that
\* has been reached stays reached, so that []<>(P => Q) over such counts says
\* that Q comes to hold in every behaviour where P does
HistoryGrows ==
  \A w \in Workers :
    /\ Len(sent[w]) <= Len(sent'[w]) /\ SubSeq(sent'[w], 1, Len(sent[w])) = sent[w]
    /\ Len(published[w]) <= Len(published'[w])
    /\ SubSeq(published'[w], 1, Len(published[w])) = published[w]
    /\ Len(Attempted(w)) <= Len(Attempted(w)')

HasFailed(w) == \E i \in DOMAIN published[w] : published[w][i].result = "Err"

C11_PublishFailureIsNotFatal ==
  /\ [][\A w \in Workers :
          Send(w, "Err") =>
            /\ worker'[w] = [at |-> "recv", msg |-> None]
            /\ queue'[w] = queue[w]
            /\ Attempted(w)' = Attempted(w)]_vars
  /\ [](\A w \in Workers :
          HasFailed(w) =>
            /\ worker[w].at \in {"recv", "send", "exited"}
            /\ Attempted(w) = PayloadsOf(Updates(Received(w))))
  /\ [][HistoryGrows]_vars
  /\ []<>(\A w \in Workers, n \in 1..MaxUpdates :
            (HasFailed(w) /\ Len(Updates(sent[w])) >= n) => Len(Attempted(w)) >= n)

\* a worker went on to submit another update after a publish of its had failed
C11_Witness ==
  \E w \in Workers :
    /\ Len(published[w]) >= 2
    /\ published[w][1].result = "Err"
    /\ worker[w].at = "recv"

(***************************************************************************)
(* C12: an on_unload of a running plugin (loaded, its worker thread not    *)
(* terminated) enqueues exactly one Shutdown on the plugin's channel and   *)
(* nothing else, and then joins that worker: the call returns only once    *)
(* the worker has terminated. No channel ever carries more than one        *)
(* Shutdown.                                                               *)
(***************************************************************************)
Running == Loaded /\ Live(Unwrap(pulsar_handle))
ShutdownsSent(c) == Cardinality({i \in DOMAIN sent[c] : sent[c][i].type = "Shutdown"})

C12_UnloadProtocol ==
  /\ [][(on_unload /\ Running) =>
          /\ sender = pulsar_handle
          /\ sent' = [sent EXCEPT ![Unwrap(pulsar_handle)] = Append(@, Shutdown)]
          /\ queue' = [queue EXCEPT ![Unwrap(pulsar_handle)] = Append(@, Shutdown)]
          /\ host' = [at |-> "joining", handle |-> pulsar_handle]]_vars
  /\ [][(host.at = "joining" /\ host'.at # "joining") =>
          /\ worker'[Unwrap(host.handle)].at \in Terminated
          /\ host'.at = "idle"
          /\ lastCall'.result = "returned"]_vars
  /\ [](\A c \in Workers : ShutdownsSent(c) <= 1)

\* an on_unload that enqueued its Shutdown has returned from its join
C12_Witness ==
  /\ lastCall.op = "on_unload"
  /\ lastCall.send = "Ok" /\ lastCall.joined
  /\ lastCall.result = "returned"
  /\ host.at = "idle"
  /\ \E c \in Workers : ShutdownsSent(c) = 1 /\ worker[c].at \in Terminated

(***************************************************************************)
(* C13: Shutdown is the last message of a channel: whatever the host calls *)
(* (update_account after on_unload has returned, on_unload again), nothing *)
(* is enqueued on a channel on which a Shutdown has been enqueued.         *)
(***************************************************************************)
C13_ShutdownIsLast ==
  /\ [][\A c \in Workers : ShutdownSent(c) => sent'[c] = sent[c]]_vars
  /\ [](\A c \in Workers :
          \A i \in DOMAIN sent[c] : sent[c][i].type = "Shutdown" => i = Len(sent[c]))

\* after an on_unload had sent Shutdown and returned, an update_account call
\* passed the filter and tried to send on the same channel
C13_Witness ==
  /\ sender # None /\ ShutdownSent(Unwrap(sender))
  /\ pulsar_handle = None /\ host.at = "idle"
  /\ lastCall.op = "update_account"
  /\ lastCall.send = "Err"

(***************************************************************************)
(* C14: an on_load whose configuration file is missing, malformed, or      *)
(* holds a token_program or mint_address that is no valid identifier does  *)
(* not succeed and creates no channel and no worker; no update_account     *)
(* call ever fails on parsing the configured identifiers.                  *)
(***************************************************************************)
ValidConfig(file) ==
  /\ file.opens
  /\ file.parses
  /\ from_str(file.token_account_filter.token_program) # Err
  /\ from_str(file.token_account_filter.mint_address) # Err

C14_BadConfigIsFatalAtLoad ==
  /\ [][\A file \in ConfigFiles :
          (on_load(file) /\ ~ValidConfig(file)) =>
            /\ lastCall'.result # "Ok"
            /\ UNCHANGED <<sender, pulsar_handle, spawned, worker>>]_vars
  /\ [](lastCall.op = "update_account" =>
          lastCall.why \notin {"should parse token program pubkey",
                               "should parse mint address pubkey"})

(***************************************************************************)
(* C15: the AccountUpdate an update_account call enqueues carries the      *)
(* call's pubkey, as token_account_owner the 32 bytes at payload offsets   *)
(* [32,64) and as account_data the whole payload, and the call's payload   *)
(* bytes [0,32) are the configured mint; the payload a worker makes of the *)
(* AccountUpdate it takes from its channel carries that message's pubkey,  *)
(* token_account_owner and account_data, and is the payload it publishes.  *)
(***************************************************************************)
\* the message a step has just appended to the plugin's channel
Enqueued == sent'[Unwrap(sender)][Len(sent'[Unwrap(sender)])]
OwnerField(account) == Take(Drop(account.data, OwnerOffset), OwnerLen)

C15_FieldsAreCarried ==
  /\ [][(UpdateAccountStep /\ ~NothingEnqueued) =>
          \A account \in AccountInfos, slot \in Slots :
            update_account(account, slot) =>
              /\ HasOwnerField(account)
              /\ MintField(account) = ConfiguredMint
              /\ Enqueued.pubkey = account.pubkey
              /\ Enqueued.token_account_owner = OwnerField(account)
              /\ ByteLen(Enqueued.token_account_owner) = PubkeyBytes
              /\ Enqueued.account_data = account.data]_vars
  /\ [][\A w \in Workers :
          /\ (worker[w].at = "recv" /\ worker'[w].at = "send") =>
               /\ queue[w] # <<>> /\ queue'[w] = Tail(queue[w])
               /\ Head(queue[w]).type = "AccountUpdate"
               /\ from_str(Unwrap(worker'[w].msg).pubkey.value)
                    = Ok(Head(queue[w]).pubkey)
               /\ Unwrap(worker'[w].msg).token_account_owner.value
                    = Head(queue[w]).token_account_owner
               /\ Unwrap(worker'[w].msg).account_data.value
                    = Head(queue[w]).account_data
          /\ (worker[w].at = "send" /\ worker'[w].at # "send") =>
               /\ Len(published'[w]) = Len(published[w]) + 1
               /\ published'[w][Len(published'[w])].payload = Unwrap(worker[w].msg)]_vars

\* a worker has published an update whose owner field differs from its mint
\* field and whose payload goes on after the owner field
C15_Witness ==
  \E w \in Workers :
    /\ published[w] # <<>>
    /\ published[w][1].payload.token_account_owner.value = OwnerY
    /\ published[w][1].payload.account_data.value = TokenAccount(MintId, OwnerY)
    /\ published[w][1].payload.pubkey.value = to_string(AccountKey)

(***************************************************************************)
(* C16: delivery is at most once: the publishes a worker has submitted are *)
(* matched one to one, in order, with AccountUpdates enqueued before on    *)
(* its own channel, so no update is submitted twice, by its worker or by   *)
(* the worker of another load, and nothing is submitted that was not       *)
(* enqueued.                                                               *)
(***************************************************************************)
C16_AtMostOnce ==
  \A w \in Workers :
    /\ Len(Attempted(w)) <= Len(Updates(sent[w]))
    /\ \A i \in DOMAIN Attempted(w) : Attempted(w)[i] = Payload(Updates(sent[w])[i])
    /\ w > spawned => (sent[w] = <<>> /\ published[w] = <<>>)

\* two workers, one of before a reload and one of after it, have each
\* published what was enqueued for them, one of the publishes having failed
C16_Witness ==
  \E w1, w2 \in Workers :
    /\ w1 < w2
    /\ Len(published[w1]) = Len(Updates(sent[w1])) /\ published[w1] # <<>>
    /\ Len(published[w2]) = Len(Updates(sent[w2])) /\ published[w2] # <<>>
    /\ published[w1][1].result = "Err"

(***************************************************************************)
(* C17: in every payload a worker submits, pubkey and token_account_owner  *)
(* are both strings, each the canonical text of its identifier, slot and   *)
(* write_version are the numbers of the AccountUpdate, unchanged, and      *)
(* account_data is a byte sequence.                                        *)
(***************************************************************************)
C17_WireRendering ==
  \A w \in Workers :
    \A i \in DOMAIN Attempted(w) :
      /\ i <= Len(Updates(sent[w]))
      /\ Attempted(w)[i].slot = JsonNumber(Updates(sent[w])[i].slot)
      /\ Attempted(w)[i].write_version = JsonNumber(Updates(sent[w])[i].write_version)
      /\ Attempted(w)[i].account_data.json = "array"
      /\ Attempted(w)[i].pubkey = JsonString(to_string(Updates(sent[w])[i].pubkey))
      /\ Attempted(w)[i].token_account_owner.json = "string"
      /\ Attempted(w)[i].token_account_owner
           = JsonString(to_string(Updates(sent[w])[i].token_account_owner))

(***************************************************************************)
(* C18: an on_load of a loaded plugin drops the sender of the previous     *)
(* channel, on which no Shutdown was or will be enqueued, and starts the   *)
(* new worker on an empty channel; nothing is enqueued on the previous     *)
(* channel any more, and its worker, once out of startup, terminates, by   *)
(* leaving its loop, after submitting every AccountUpdate enqueued on it.  *)
(***************************************************************************)
\* channel w was replaced by a later load without a Shutdown enqueued on it
Replaced(w) == w < spawned /\ ~ShutdownSent(w)

C18_ReloadDrainsOldPipeline ==
  /\ [][\A file \in ConfigFiles :
          (Loaded /\ on_load(file) /\ lastCall'.result = "Ok") =>
            /\ sender = pulsar_handle
            /\ sender' # pulsar_handle
            /\ ~ShutdownSent(Unwrap(pulsar_handle))
            /\ sent'[spawned'] = <<>> /\ queue'[spawned'] = <<>>]_vars
  /\ [][\A w \in Workers : w < spawned => sent'[w] = sent[w]]_vars
  /\ [](\A w \in Workers :
          (Replaced(w) /\ worker[w].at \in Terminated) =>
            \/ worker[w].at = "panicked" /\ published[w] = <<>>
            \/ /\ worker[w].at = "exited"
               /\ queue[w] = <<>>
               /\ Attempted(w) = PayloadsOf(Updates(sent[w])))
  /\ []<>(\A w \in Workers : Replaced(w) => worker[w].at \in Terminated)

\* a worker replaced by a reload has published its update and left its loop
\* with no Shutdown, and the new worker has an update of its own
C18_Witness ==
  \E w \in Workers :
    /\ Replaced(w)
    /\ worker[w].at = "exited"
    /\ published[w] # <<>>
    /\ Updates(sent[spawned]) # <<>>

(***************************************************************************)
(* C19: while a worker is in startup everything enqueued on its channel    *)
(* stays there and nothing is submitted; the end of a successful startup   *)
(* leaves the channel as it is; a worker whose startup failed never        *)
(* submits anything; a worker submits the oldest message of its channel    *)
(* first; and a worker whose startup does not fail comes to have submitted *)
(* as many updates as were enqueued on its channel, those enqueued during  *)
(* its startup among them (the host makes finitely many calls).            *)
(***************************************************************************)
C19_StartupBacklog ==
  /\ [](\A w \in Workers :
          /\ InStartup(w) => (queue[w] = sent[w] /\ Attempted(w) = <<>>)
          /\ worker[w].at = "panicked" => Attempted(w) = <<>>)
  /\ [][\A w \in Workers :
          /\ (InStartup(w) /\ worker'[w].at # "startup") =>
               \/ worker'[w].at = "recv" /\ queue'[w] = sent[w]
               \/ worker'[w].at = "panicked"
          /\ (worker[w].at = "recv" /\ worker'[w].at = "send") =>
               /\ queue[w] # <<>> /\ queue'[w] = Tail(queue[w])
               /\ worker'[w].msg = Some(Payload(Head(queue[w])))]_vars
  /\ []<>(\A w \in Workers :
            \/ worker[w].at = "panicked"
            \/ sent[w] = <<>>
            \/ Len(Attempted(w)) >= Len(Updates(sent[w])))

\* a worker's startup has failed with an update buffered in its channel, and
\* nothing was published
C19_Witness ==
  \E w \in Workers :
    /\ worker[w].at = "panicked"
    /\ Updates(sent[w]) # <<>>
    /\ published[w] = <<>>

(***************************************************************************)
(* C20: on_unload leaves no handle in the plugin and does not fault; with  *)
(* the receiver of the plugin's channel gone its Shutdown is not enqueued  *)
(* and the call goes on; with no handle to join (never loaded, or unloaded *)
(* already) it enqueues nothing and returns at once; a join returns to an  *)
(* idle host whether the worker ended by return or by panic; and every     *)
(* on_unload returns.                                                      *)
(***************************************************************************)
C20_UnloadAlwaysReturns ==
  /\ [][on_unload =>
          /\ pulsar_handle' = None
          /\ host'.at \in {"idle", "joining"}
          /\ (sender # None /\ ~ReceiverAlive(Unwrap(sender))) =>
               (NothingEnqueued /\ lastCall'.send = "Err")
          /\ pulsar_handle = None =>
               (NothingEnqueued /\ host'.at = "idle" /\ lastCall'.result = "returned")]_vars
  /\ [][(host.at = "joining" /\ host'.at # "joining") =>
          /\ host' = [at |-> "idle", handle |-> None]
          /\ pulsar_handle' = None
          /\ lastCall'.result = "returned"]_vars
  /\ []<>(host.at # "joining")

\* an on_unload of a plugin whose worker had died in startup: the Shutdown
\* was not sent, the join returned, and the call returned
C20_Witness ==
  /\ lastCall.op = "on_unload"
  /\ lastCall.send = "Err" /\ lastCall.joined
  /\ lastCall.result = "returned"
  /\ host.at = "idle" /\ pulsar_handle = None
  /\ sender # None /\ worker[Unwrap(sender)].at = "panicked"

====
